---- MODULE Spec2Model ----
(***************************************************************************)
(* NetLink: the link-layer NetworkInterface (ARP cache, pending datagram   *)
(* queues, TX queue) and the Router (longest-prefix-match forwarding)      *)
(* of src/src/router.cc and src/src/network_interface.hh.                  *)
(*                                                                         *)
(* Vectors are sequences, so the code's 0-based index i is i+1 here.       *)
(* A 32-bit IPv4 address is the tuple of its four octets, most significant *)
(* first; an EthernetAddress is a small tag standing for six bytes; a      *)
(* size_t is the tuple of its four 16-bit limbs, most significant first.   *)
(***************************************************************************)
EXTENDS Integers, Sequences, FiniteSets, TLC

VARIABLES
  interfaces,    \* Router::interfaces_ : each element one AsyncNetworkInterface
  RoutingTable,  \* Router::RoutingTable
  status,        \* "running", "exit" after exit(1), "undefined" after undefined behaviour
  last,          \* history: the operation of the last step and the outline of its arguments
  nextId,        \* history: number of datagrams handed to the model so far
  arpRequests,   \* history: per interface and IP, ARP REQUEST frames enqueued on TX
  insertions,    \* history: per interface and IP, cache entries inserted by send_datagram
  dropped,       \* history: ids of the datagrams whose pending queue tick erased
  expired,       \* history: <<interface, IP>> whose incomplete entry tick erased, until the
                 \*          next send_datagram to that IP on that interface
  routeLog,      \* history: what the route() of the last step did with each datagram
  observe        \* which of "requests" (arpRequests, insertions) and "drops" (dropped,
                 \* expired) are recorded; fixed by the initial state

vars == <<interfaces, RoutingTable, status, last, nextId, arpRequests, insertions,
          dropped, expired, routeLog, observe>>

----------------------------------------------------------------------------
(* Bounds of the model *)

MaxDgrams == 2        \* datagrams the host hands over in one behaviour
MaxTx == 2            \* frames waiting in one ReadyToBeSentQueue
MaxInterfaces == 2    \* interfaces added to the router
MaxRoutes == 2        \* routes added to the router
MaxTtl == 10000       \* largest TTL a tick with a negative (wrapped) argument may produce

(* Program constants *)

PENDING_TTL == 5000
RESOLVED_TTL == 30000
TYPE_IPv4 == 2048
TYPE_ARP == 2054
OPCODE_REQUEST == 1
OPCODE_REPLY == 2

----------------------------------------------------------------------------
(* Addresses *)

ETHERNET_BROADCAST == "ff:ff:ff:ff:ff:ff"
ZeroMac == "00:00:00:00:00:00"     \* a value-initialised EthernetAddress, {}
MacA == "02:00:00:00:00:02"
MacB == "02:00:00:00:00:03"
OwnMac(i) == IF i = 1 THEN "02:00:00:00:00:01" ELSE "02:00:00:00:01:01"

IpA == <<10, 0, 0, 2>>
IpB == <<10, 0, 0, 3>>
OwnIp(i) == IF i = 1 THEN <<10, 0, 0, 1>> ELSE <<10, 1, 0, 1>>

PeerMacs == {MacA, MacB}
PeerIps == {IpA, IpB}

\* std::optional: empty, or holding a value
Nothing == [has_value |-> FALSE]
Some(v) == [has_value |-> TRUE, value |-> v]

----------------------------------------------------------------------------
(* Small helpers on vectors *)

RemoveAt(s, i) == SubSeq(s, 1, i - 1) \o SubSeq(s, i + 1, Len(s))

\* The result of a member function: the object after the call, whether the
\* call ended in exit(1), and the value it returned.
Result(nif, exited, ret) == [nif |-> nif, exited |-> exited, ret |-> ret]

----------------------------------------------------------------------------
(* External codecs (spec.md 6.1): serialize wraps a value in a payload     *)
(* tagged with its wire format, parse accepts only a payload of that       *)
(* format.                                                                 *)

serializeDgram(dgram) == [kind |-> "ipv4", dgram |-> dgram]
serializeArp(arp) == [kind |-> "arp", arp |-> arp]
BadPayload == [kind |-> "bad"]

parseDgramOk(payload) == payload.kind = "ipv4"
parseArpOk(payload) == payload.kind = "arp"

\* The one's-complement header checksum over the header words the model
\* keeps: (ttl, protocol = 6) and the two halves of dst.
Fold16(n) == IF n > 65535 THEN (n % 65536) + (n \div 65536) ELSE n
HeaderChecksum(ttl, dst) ==
  65535 - Fold16(Fold16((ttl * 256 + 6) + (dst[1] * 256 + dst[2]) + (dst[3] * 256 + dst[4])))

compute_checksum(dgram) == [dgram EXCEPT !.cksum = HeaderChecksum(dgram.ttl, dgram.dst)]

Datagram(id, dst, ttl) == compute_checksum([id |-> id, dst |-> dst, ttl |-> ttl, cksum |-> 0])

----------------------------------------------------------------------------
(* NetworkInterface *)

\* The constructor: empty ARP table, TX queue and IP queues; the wrapper
\* AsyncNetworkInterface adds the empty queue datagrams_in_.
NetworkInterface(ethernet_address, ip_address) ==
  [ ethernet_address_ |-> ethernet_address,
    ip_address_ |-> ip_address,
    ARPTable |-> << >>,
    ReadyToBeSentQueue |-> << >>,
    IPQueues |-> << >>,
    datagrams_in_ |-> << >> ]

makeArp(opcode, sender_ethernet_address, sender_ip_address, target_ethernet_address, target_ip_address) ==
  [ opcode |-> opcode,
    sender_ethernet_address |-> sender_ethernet_address,
    sender_ip_address |-> sender_ip_address,
    target_ethernet_address |-> target_ethernet_address,
    target_ip_address |-> target_ip_address ]

makeFrame(src, dst, type, payload) ==
  [ src |-> src, dst |-> dst, type |-> type, payload |-> payload ]

\* The linear scans: the first entry with the address decides.
RECURSIVE ScanARPTable(_, _, _)
ScanARPTable(tbl, ip_address, i) ==
  IF i > Len(tbl) THEN [index |-> -1, found |-> 0]
  ELSE IF tbl[i].ip_address = ip_address
       THEN [index |-> i, found |-> IF tbl[i].complete_entry THEN 2 ELSE 1]
       ELSE ScanARPTable(tbl, ip_address, i + 1)

isEntryInARPTable(nif, ip_address) == ScanARPTable(nif.ARPTable, ip_address, 1)

RECURSIVE ScanIPQueues(_, _, _)
ScanIPQueues(qs, ip_address, i) ==
  IF i > Len(qs) THEN [index |-> -1, found |-> 0]
  ELSE IF qs[i].ip_address = ip_address
       THEN [index |-> i, found |-> 1]
       ELSE ScanIPQueues(qs, ip_address, i + 1)

isEntryInIPQueues(nif, ip_address) == ScanIPQueues(nif.IPQueues, ip_address, 1)

ARPTableEntry(complete_entry, ip_address, mac_address, ttl) ==
  [ complete_entry |-> complete_entry, ip_address |-> ip_address,
    mac_address |-> mac_address, ttl |-> ttl ]

IPQueue(ip_address, datagrams) == [ip_address |-> ip_address, datagrams |-> datagrams]

\* send_datagram, entry found and complete: one IPv4 frame to the cached MAC.
\* SendResolved that also refreshes the TTL of the entry it used.
SendResolved_Refresh(nif, dgram, a) ==
  Result([nif EXCEPT !.ReadyToBeSentQueue =
            Append(@, makeFrame(nif.ethernet_address_, nif.ARPTable[a.index].mac_address,
                                TYPE_IPv4, serializeDgram(dgram))),
                     !.ARPTable[a.index].ttl = RESOLVED_TTL],
         FALSE, Nothing)

SendResolved(nif, dgram, a) ==
  Result([nif EXCEPT !.ReadyToBeSentQueue =
            Append(@, makeFrame(nif.ethernet_address_, nif.ARPTable[a.index].mac_address,
                                TYPE_IPv4, serializeDgram(dgram)))],
         FALSE, Nothing)

\* SendPending that also sends another ARP request.
SendPending_Rerequest(nif, dgram, next_hop) ==
  LET q == isEntryInIPQueues(nif, next_hop)
      arp == makeArp(OPCODE_REQUEST, nif.ethernet_address_, nif.ip_address_,
                     ZeroMac, next_hop)
  IN IF q.found # 1
     THEN Result(nif, TRUE, Nothing)
     ELSE Result([nif EXCEPT !.IPQueues[q.index].datagrams = Append(@, dgram),
                             !.ReadyToBeSentQueue =
                                Append(@, makeFrame(nif.ethernet_address_, ETHERNET_BROADCAST,
                                                    TYPE_ARP, serializeArp(arp)))],
                 FALSE, Nothing)

\* SendPending that puts the datagram at the front of the queue.
SendPending_Prepend(nif, dgram, next_hop) ==
  LET q == isEntryInIPQueues(nif, next_hop)
  IN IF q.found # 1
     THEN Result(nif, TRUE, Nothing)
     ELSE Result([nif EXCEPT !.IPQueues[q.index].datagrams = <<dgram>> \o @],
                 FALSE, Nothing)

\* SendPending that also sets the TTL of the incomplete entry again.
SendPending_TtlReset(nif, dgram, next_hop) ==
  LET q == isEntryInIPQueues(nif, next_hop)
      a == isEntryInARPTable(nif, next_hop)
  IN IF q.found # 1
     THEN Result(nif, TRUE, Nothing)
     ELSE Result([nif EXCEPT !.IPQueues[q.index].datagrams = Append(@, dgram),
                             !.ARPTable[a.index].ttl = PENDING_TTL],
                 FALSE, Nothing)

\* send_datagram, entry found but incomplete: queue the datagram.
SendPending(nif, dgram, next_hop) ==
  LET q == isEntryInIPQueues(nif, next_hop)
  IN IF q.found # 1
     THEN Result(nif, TRUE, Nothing)
     ELSE Result([nif EXCEPT !.IPQueues[q.index].datagrams = Append(@, dgram)],
                 FALSE, Nothing)

\* SendAbsent giving the incomplete entry the TTL of a complete one.
SendAbsent_LongTtl(nif, dgram, next_hop) ==
  LET q == isEntryInIPQueues(nif, next_hop)
      arp == makeArp(OPCODE_REQUEST, nif.ethernet_address_, nif.ip_address_,
                     ZeroMac, next_hop)
      frame == makeFrame(nif.ethernet_address_, ETHERNET_BROADCAST, TYPE_ARP,
                         serializeArp(arp))
  IN IF q.found # 0
     THEN Result(nif, TRUE, Nothing)
     ELSE Result([nif EXCEPT
                    !.ARPTable = Append(@, ARPTableEntry(FALSE, next_hop, ZeroMac, RESOLVED_TTL)),
                    !.IPQueues = Append(@, IPQueue(next_hop, <<dgram>>)),
                    !.ReadyToBeSentQueue = Append(@, frame)],
                 FALSE, Nothing)

\* SendAbsent that inserts the incomplete entry without an IP queue.
SendAbsent_NoQueue(nif, dgram, next_hop) ==
  LET q == isEntryInIPQueues(nif, next_hop)
      arp == makeArp(OPCODE_REQUEST, nif.ethernet_address_, nif.ip_address_,
                     ZeroMac, next_hop)
      frame == makeFrame(nif.ethernet_address_, ETHERNET_BROADCAST, TYPE_ARP,
                         serializeArp(arp))
  IN IF q.found # 0
     THEN Result(nif, TRUE, Nothing)
     ELSE Result([nif EXCEPT
                    !.ARPTable = Append(@, ARPTableEntry(FALSE, next_hop, ZeroMac, PENDING_TTL)),
                    !.ReadyToBeSentQueue = Append(@, frame)],
                 FALSE, Nothing)

\* send_datagram, entry not found: incomplete entry, new queue, ARP request.
SendAbsent(nif, dgram, next_hop) ==
  LET q == isEntryInIPQueues(nif, next_hop)
      arp == makeArp(OPCODE_REQUEST, nif.ethernet_address_, nif.ip_address_,
                     ZeroMac, next_hop)
      frame == makeFrame(nif.ethernet_address_, ETHERNET_BROADCAST, TYPE_ARP,
                         serializeArp(arp))
  IN IF q.found # 0
     THEN Result(nif, TRUE, Nothing)
     ELSE Result([nif EXCEPT
                    !.ARPTable = Append(@, ARPTableEntry(FALSE, next_hop, ZeroMac, PENDING_TTL)),
                    !.IPQueues = Append(@, IPQueue(next_hop, <<dgram>>)),
                    !.ReadyToBeSentQueue = Append(@, frame)],
                 FALSE, Nothing)

send_datagram(nif, dgram, next_hop) ==
  LET a == isEntryInARPTable(nif, next_hop)
  IN CASE a.found = 2 -> SendResolved(nif, dgram, a)
       [] a.found = 1 -> SendPending(nif, dgram, next_hop)
       [] a.found = 0 -> SendAbsent(nif, dgram, next_hop)

\* RecvResolved that appends a refreshed copy of the entry.
RecvResolved_Append(nif, a, q) ==
  IF q.found # 0
  THEN Result(nif, TRUE, Nothing)
  ELSE Result([nif EXCEPT !.ARPTable = Append(@, [@[a.index] EXCEPT !.ttl = RESOLVED_TTL])],
              FALSE, Nothing)

\* recv_frame, ARP, sender found and complete: only the TTL is written.
RecvResolved(nif, a, q) ==
  IF q.found # 0
  THEN Result(nif, TRUE, Nothing)
  ELSE Result([nif EXCEPT !.ARPTable[a.index].ttl = RESOLVED_TTL], FALSE, Nothing)

\* The frames of the datagrams of one IP queue, in index order.
RECURSIVE DrainFrames(_, _, _, _)
DrainFrames(nif, datagrams, dst, i) ==
  IF i > Len(datagrams) THEN << >>
  ELSE <<makeFrame(nif.ethernet_address_, dst, TYPE_IPv4, serializeDgram(datagrams[i]))>>
       \o DrainFrames(nif, datagrams, dst, i + 1)

\* RecvPending without the erase of the IP queue.
RecvPending_QueueKept(nif, arp, a, q) ==
  IF q.found # 1
  THEN Result(nif, TRUE, Nothing)
  ELSE Result([nif EXCEPT
                 !.ARPTable[a.index] =
                    ARPTableEntry(TRUE, @.ip_address, arp.sender_ethernet_address, RESOLVED_TTL),
                 !.ReadyToBeSentQueue =
                    @ \o DrainFrames(nif, nif.IPQueues[q.index].datagrams,
                                     arp.sender_ethernet_address, 1)],
              FALSE, Nothing)

\* RecvPending that frames every queued datagram twice.
RecvPending_Twice(nif, arp, a, q) ==
  IF q.found # 1
  THEN Result(nif, TRUE, Nothing)
  ELSE Result([nif EXCEPT
                 !.ARPTable[a.index] =
                    ARPTableEntry(TRUE, @.ip_address, arp.sender_ethernet_address, RESOLVED_TTL),
                 !.ReadyToBeSentQueue =
                    @ \o DrainFrames(nif, nif.IPQueues[q.index].datagrams,
                                     arp.sender_ethernet_address, 1)
                      \o DrainFrames(nif, nif.IPQueues[q.index].datagrams,
                                     arp.sender_ethernet_address, 1),
                 !.IPQueues = RemoveAt(@, q.index)],
              FALSE, Nothing)

\* recv_frame, ARP, sender found but incomplete: complete the entry, send
\* the queued datagrams, erase the queue.
RecvPending(nif, arp, a, q) ==
  IF q.found # 1
  THEN Result(nif, TRUE, Nothing)
  ELSE Result([nif EXCEPT
                 !.ARPTable[a.index] =
                    ARPTableEntry(TRUE, @.ip_address, arp.sender_ethernet_address, RESOLVED_TTL),
                 !.ReadyToBeSentQueue =
                    @ \o DrainFrames(nif, nif.IPQueues[q.index].datagrams,
                                     arp.sender_ethernet_address, 1),
                 !.IPQueues = RemoveAt(@, q.index)],
              FALSE, Nothing)

\* recv_frame, ARP, sender not found: a complete entry is appended.
RecvAbsent(nif, arp, q) ==
  IF q.found # 0
  THEN Result(nif, TRUE, Nothing)
  ELSE Result([nif EXCEPT !.ARPTable =
                 Append(@, ARPTableEntry(TRUE, arp.sender_ip_address,
                                         arp.sender_ethernet_address, RESOLVED_TTL))],
              FALSE, Nothing)

\* recv_frame, STEP 1: the cache (and the IP queues) learn the sender.
ArpLearn(nif, arp) ==
  LET a == isEntryInARPTable(nif, arp.sender_ip_address)
      q == isEntryInIPQueues(nif, arp.sender_ip_address)
  IN CASE a.found = 2 -> RecvResolved(nif, a, q)
       [] a.found = 1 -> RecvPending(nif, arp, a, q)
       [] a.found = 0 -> RecvAbsent(nif, arp, q)

\* ArpReply that answers a request for any IP address.
ArpReply_AnyTarget(nif, arp) ==
  IF arp.opcode = OPCODE_REQUEST
  THEN [nif EXCEPT !.ReadyToBeSentQueue =
          Append(@, makeFrame(nif.ethernet_address_, arp.sender_ethernet_address, TYPE_ARP,
                              serializeArp(makeArp(OPCODE_REPLY, nif.ethernet_address_,
                                                   nif.ip_address_,
                                                   arp.sender_ethernet_address,
                                                   arp.sender_ip_address))))]
  ELSE nif

\* recv_frame, STEP 2: a request for this interface's IP address is answered.
ArpReply(nif, arp) ==
  IF arp.opcode = OPCODE_REQUEST /\ arp.target_ip_address = nif.ip_address_
  THEN [nif EXCEPT !.ReadyToBeSentQueue =
          Append(@, makeFrame(nif.ethernet_address_, arp.sender_ethernet_address, TYPE_ARP,
                              serializeArp(makeArp(OPCODE_REPLY, nif.ethernet_address_,
                                                   nif.ip_address_,
                                                   arp.sender_ethernet_address,
                                                   arp.sender_ip_address))))]
  ELSE nif

\* isDestined of an interface that accepts every frame.
isDestined_Promiscuous(nif, frame) == TRUE

\* Whether the frame passes the destination filter.
isDestined(nif, frame) ==
  frame.dst = nif.ethernet_address_ \/ frame.dst = ETHERNET_BROADCAST

\* recv_frame that answers the request before it learns the sender.
recv_frame_ReplyFirst(nif, frame) ==
  IF ~isDestined(nif, frame) THEN Result(nif, FALSE, Nothing)
  ELSE IF frame.type = TYPE_IPv4
  THEN IF parseDgramOk(frame.payload)
       THEN Result(nif, FALSE, Some(frame.payload.dgram))
       ELSE Result(nif, FALSE, Nothing)
  ELSE IF frame.type = TYPE_ARP
  THEN IF parseArpOk(frame.payload)
       THEN ArpLearn(ArpReply(nif, frame.payload.arp), frame.payload.arp)
       ELSE Result(nif, FALSE, Nothing)
  ELSE Result(nif, FALSE, Nothing)

recv_frame(nif, frame) ==
  IF ~isDestined(nif, frame) THEN Result(nif, FALSE, Nothing)
  ELSE IF frame.type = TYPE_IPv4
  THEN IF parseDgramOk(frame.payload)
       THEN Result(nif, FALSE, Some(frame.payload.dgram))
       ELSE Result(nif, FALSE, Nothing)
  ELSE IF frame.type = TYPE_ARP
  THEN IF parseArpOk(frame.payload)
       THEN LET learned == ArpLearn(nif, frame.payload.arp)
            IN IF learned.exited THEN learned
               ELSE Result(ArpReply(learned.nif, frame.payload.arp), FALSE, Nothing)
       ELSE Result(nif, FALSE, Nothing)
  ELSE Result(nif, FALSE, Nothing)

\* static_cast<int>( size_t ): the low 32 bits, read as two's complement.
\* ms is <<limb3, limb2, limb1, limb0>>, 16 bits each.
ToInt(ms) ==
  IF ms[3] >= 32768 THEN (ms[3] - 65536) * 65536 + ms[4] ELSE ms[3] * 65536 + ms[4]

\* The loop of tick from index i on; d is the int subtracted from every TTL.
RECURSIVE TickLoop(_, _, _)
TickLoop(nif, i, d) ==
  IF i > Len(nif.ARPTable) THEN Result(nif, FALSE, Nothing)
  ELSE LET aged == [nif EXCEPT !.ARPTable[i].ttl = @ - d]
           e == aged.ARPTable[i]
       IN IF e.ttl <= 0
          THEN IF ~e.complete_entry
               THEN LET q == isEntryInIPQueues(aged, e.ip_address)
                    IN IF q.found # 1
                       THEN Result(aged, TRUE, Nothing)
                       ELSE TickLoop([aged EXCEPT !.IPQueues = RemoveAt(@, q.index),
                                                  !.ARPTable = RemoveAt(@, i)], i, d)
               ELSE TickLoop([aged EXCEPT !.ARPTable = RemoveAt(@, i)], i, d)
          ELSE TickLoop(aged, i + 1, d)

\* tick that erases expired entries but leaves their IP queues.
tick_QueueLeft(nif, ms_since_last_tick) ==
  LET r == TickLoop(nif, 1, ToInt(ms_since_last_tick))
  IN Result([r.nif EXCEPT !.IPQueues = nif.IPQueues], r.exited, r.ret)

\* tick that also throws away the frames waiting on TX.
tick_FlushesTx(nif, ms_since_last_tick) ==
  LET r == TickLoop(nif, 1, ToInt(ms_since_last_tick))
  IN Result([r.nif EXCEPT !.ReadyToBeSentQueue = << >>], r.exited, r.ret)

\* tick that lets at least one millisecond pass.
tick_AtLeastOne(nif, ms_since_last_tick) ==
  TickLoop(nif, 1, IF ToInt(ms_since_last_tick) = 0 THEN 1 ELSE ToInt(ms_since_last_tick))

tick(nif, ms_since_last_tick) == TickLoop(nif, 1, ToInt(ms_since_last_tick))

\* maybe_send taking the frame enqueued last.
maybe_send_Lifo(nif) ==
  IF Len(nif.ReadyToBeSentQueue) > 0
  THEN Result([nif EXCEPT !.ReadyToBeSentQueue = RemoveAt(@, Len(@))], FALSE,
              Some(nif.ReadyToBeSentQueue[Len(nif.ReadyToBeSentQueue)]))
  ELSE Result(nif, FALSE, Nothing)

maybe_send(nif) ==
  IF Len(nif.ReadyToBeSentQueue) > 0
  THEN Result([nif EXCEPT !.ReadyToBeSentQueue = RemoveAt(@, 1)], FALSE,
              Some(nif.ReadyToBeSentQueue[1]))
  ELSE Result(nif, FALSE, Nothing)

\* AsyncNetworkInterface::recv_frame: a returned datagram is stored.
async_recv_frame(nif, frame) ==
  LET r == recv_frame(nif, frame)
  IN IF r.ret.has_value
     THEN Result([r.nif EXCEPT !.datagrams_in_ = Append(@, r.ret.value)], r.exited, Nothing)
     ELSE r

maybe_receive(nif) ==
  IF Len(nif.datagrams_in_) = 0
  THEN Result(nif, FALSE, Nothing)
  ELSE Result([nif EXCEPT !.datagrams_in_ = Tail(@)], FALSE, Some(Head(nif.datagrams_in_)))

----------------------------------------------------------------------------
(* Router *)

\* uint32_t as its 32 bits, most significant first.
ByteBits(b) == [k \in 1..8 |-> (b \div (2 ^ (8 - k))) % 2]
Bits(ip) == ByteBits(ip[1]) \o ByteBits(ip[2]) \o ByteBits(ip[3]) \o ByteBits(ip[4])
AllOnes == [k \in 1..32 |-> 1]                                      \* ~0u, 0xFFFFFFFF
ShiftLeft(b, n) == [k \in 1..32 |-> IF k + n <= 32 THEN b[k + n] ELSE 0]
BitAnd(a, b) == [k \in 1..32 |-> a[k] * b[k]]

\* isPrefixMatch with the mask shifted by prefix_length instead of
\* 32 - prefix_length.
isPrefixMatch_ShiftByLength(ip_address1, ip_address2, prefix_length) ==
  IF prefix_length = 0 THEN TRUE
  ELSE LET mask == IF prefix_length = 32 THEN AllOnes
                   ELSE ShiftLeft(AllOnes, prefix_length)
       IN BitAnd(Bits(ip_address1), mask) = BitAnd(Bits(ip_address2), mask)

isPrefixMatch(ip_address1, ip_address2, prefix_length) ==
  IF prefix_length = 0 THEN TRUE
  ELSE LET mask == IF prefix_length = 32 THEN AllOnes
                   ELSE ShiftLeft(AllOnes, 32 - prefix_length)
       IN BitAnd(Bits(ip_address1), mask) = BitAnd(Bits(ip_address2), mask)

\* interface_num is the code's 0-based index.
RoutingTableEntry(route_prefix, prefix_length, next_hop, interface_num) ==
  [ route_prefix |-> route_prefix, prefix_length |-> prefix_length,
    next_hop |-> next_hop, interface_num |-> interface_num ]

DefaultRoutingTableEntry == RoutingTableEntry(<<0, 0, 0, 0>>, 0, Nothing, 0)

\* The scan taking an entry that is as long as the longest so far.
RECURSIVE LpmScan_LastWins(_, _, _, _, _)
LpmScan_LastWins(table, dst, j, longest_prefix_length, table_entry) ==
  IF j > Len(table)
  THEN [longest_prefix_length |-> longest_prefix_length, table_entry |-> table_entry]
  ELSE IF isPrefixMatch(dst, table[j].route_prefix, table[j].prefix_length)
          /\ table[j].prefix_length >= longest_prefix_length
       THEN LpmScan_LastWins(table, dst, j + 1, table[j].prefix_length, table[j])
       ELSE LpmScan_LastWins(table, dst, j + 1, longest_prefix_length, table_entry)

\* The scan of route() over the routing table from index j on.
RECURSIVE LpmScan(_, _, _, _, _)
LpmScan(table, dst, j, longest_prefix_length, table_entry) ==
  IF j > Len(table)
  THEN [longest_prefix_length |-> longest_prefix_length, table_entry |-> table_entry]
  ELSE IF isPrefixMatch(dst, table[j].route_prefix, table[j].prefix_length)
          /\ table[j].prefix_length > longest_prefix_length
       THEN LpmScan(table, dst, j + 1, table[j].prefix_length, table[j])
       ELSE LpmScan(table, dst, j + 1, longest_prefix_length, table_entry)

LongestPrefixMatch(table, dst) == LpmScan(table, dst, 1, -999, DefaultRoutingTableEntry)

\* What route() did with one datagram it took from interface `ingress`
\* (0-based): the datagram as received, the entry chosen, and, when
\* send_datagram was called, the interface, the datagram and the next hop passed.
RouteRecord(ingress, received, lpm, forwarded, dgram, next_hop) ==
  [ ingress |-> ingress, received |-> received,
    matched |-> lpm.longest_prefix_length >= 0, table_entry |-> lpm.table_entry,
    forwarded |-> forwarded, interface_num |-> lpm.table_entry.interface_num,
    dgram |-> dgram, next_hop |-> next_hop ]

\* The loop body forwarding every datagram whose TTL is not 0.
RouteDatagram_TtlZeroOnly(ifs, table, ingress, datagram) ==
  LET lpm == LongestPrefixMatch(table, datagram.dst)
      e == lpm.table_entry
      dropped_rec == RouteRecord(ingress, datagram, lpm, FALSE, datagram, Nothing)
  IN IF lpm.longest_prefix_length >= 0 /\ datagram.ttl > 0
     THEN LET out == compute_checksum([datagram EXCEPT !.ttl = @ - 1])
              next_hop == IF e.next_hop.has_value THEN e.next_hop.value ELSE out.dst
              rec == RouteRecord(ingress, datagram, lpm, TRUE, out, Some(next_hop))
          IN IF e.interface_num + 1 > Len(ifs)
             THEN [ifs |-> ifs, status |-> "undefined", rec |-> rec]
             ELSE LET r == send_datagram(ifs[e.interface_num + 1], out, next_hop)
                  IN [ ifs |-> [ifs EXCEPT ![e.interface_num + 1] = r.nif],
                       status |-> IF r.exited THEN "exit" ELSE "running",
                       rec |-> rec ]
     ELSE [ifs |-> ifs, status |-> "running", rec |-> dropped_rec]

\* The loop body computing the checksum before it decrements the TTL.
RouteDatagram_ChecksumFirst(ifs, table, ingress, datagram) ==
  LET lpm == LongestPrefixMatch(table, datagram.dst)
      e == lpm.table_entry
      dropped_rec == RouteRecord(ingress, datagram, lpm, FALSE, datagram, Nothing)
  IN IF lpm.longest_prefix_length >= 0 /\ datagram.ttl > 1
     THEN LET out == [compute_checksum(datagram) EXCEPT !.ttl = @ - 1]
              next_hop == IF e.next_hop.has_value THEN e.next_hop.value ELSE out.dst
              rec == RouteRecord(ingress, datagram, lpm, TRUE, out, Some(next_hop))
          IN IF e.interface_num + 1 > Len(ifs)
             THEN [ifs |-> ifs, status |-> "undefined", rec |-> rec]
             ELSE LET r == send_datagram(ifs[e.interface_num + 1], out, next_hop)
                  IN [ ifs |-> [ifs EXCEPT ![e.interface_num + 1] = r.nif],
                       status |-> IF r.exited THEN "exit" ELSE "running",
                       rec |-> rec ]
     ELSE [ifs |-> ifs, status |-> "running", rec |-> dropped_rec]

\* The loop body taking the destination as the next hop of every route.
RouteDatagram_DstAsHop(ifs, table, ingress, datagram) ==
  LET lpm == LongestPrefixMatch(table, datagram.dst)
      e == lpm.table_entry
      dropped_rec == RouteRecord(ingress, datagram, lpm, FALSE, datagram, Nothing)
  IN IF lpm.longest_prefix_length >= 0 /\ datagram.ttl > 1
     THEN LET out == compute_checksum([datagram EXCEPT !.ttl = @ - 1])
              next_hop == out.dst
              rec == RouteRecord(ingress, datagram, lpm, TRUE, out, Some(next_hop))
          IN IF e.interface_num + 1 > Len(ifs)
             THEN [ifs |-> ifs, status |-> "undefined", rec |-> rec]
             ELSE LET r == send_datagram(ifs[e.interface_num + 1], out, next_hop)
                  IN [ ifs |-> [ifs EXCEPT ![e.interface_num + 1] = r.nif],
                       status |-> IF r.exited THEN "exit" ELSE "running",
                       rec |-> rec ]
     ELSE [ifs |-> ifs, status |-> "running", rec |-> dropped_rec]

\* The loop body without the test that an entry matched.
RouteDatagram_NoMatchForwarded(ifs, table, ingress, datagram) ==
  LET lpm == LongestPrefixMatch(table, datagram.dst)
      e == lpm.table_entry
      dropped_rec == RouteRecord(ingress, datagram, lpm, FALSE, datagram, Nothing)
  IN IF lpm.longest_prefix_length >= -999 /\ datagram.ttl > 1
     THEN LET out == compute_checksum([datagram EXCEPT !.ttl = @ - 1])
              next_hop == IF e.next_hop.has_value THEN e.next_hop.value ELSE out.dst
              rec == RouteRecord(ingress, datagram, lpm, TRUE, out, Some(next_hop))
          IN IF e.interface_num + 1 > Len(ifs)
             THEN [ifs |-> ifs, status |-> "undefined", rec |-> rec]
             ELSE LET r == send_datagram(ifs[e.interface_num + 1], out, next_hop)
                  IN [ ifs |-> [ifs EXCEPT ![e.interface_num + 1] = r.nif],
                       status |-> IF r.exited THEN "exit" ELSE "running",
                       rec |-> rec ]
     ELSE [ifs |-> ifs, status |-> "running", rec |-> dropped_rec]

\* The body of the while loop of route() for one datagram. status is
\* "running", "exit" after exit(1), or "undefined" after interfaces_[n] with
\* n out of range.
RouteDatagram(ifs, table, ingress, datagram) ==
  LET lpm == LongestPrefixMatch(table, datagram.dst)
      e == lpm.table_entry
      dropped_rec == RouteRecord(ingress, datagram, lpm, FALSE, datagram, Nothing)
  IN IF lpm.longest_prefix_length >= 0 /\ datagram.ttl > 1
     THEN LET out == compute_checksum([datagram EXCEPT !.ttl = @ - 1])
              next_hop == IF e.next_hop.has_value THEN e.next_hop.value ELSE out.dst
              rec == RouteRecord(ingress, datagram, lpm, TRUE, out, Some(next_hop))
          IN IF e.interface_num + 1 > Len(ifs)
             THEN [ifs |-> ifs, status |-> "undefined", rec |-> rec]
             ELSE LET r == send_datagram(ifs[e.interface_num + 1], out, next_hop)
                  IN [ ifs |-> [ifs EXCEPT ![e.interface_num + 1] = r.nif],
                       status |-> IF r.exited THEN "exit" ELSE "running",
                       rec |-> rec ]
     ELSE [ifs |-> ifs, status |-> "running", rec |-> dropped_rec]

\* route() from interface i (1-based) on; log collects the RouteRecords.
RECURSIVE RouteLoop(_, _, _, _)
RouteLoop(ifs, table, i, log) ==
  IF i > Len(ifs) THEN [ifs |-> ifs, status |-> "running", log |-> log]
  ELSE LET got == maybe_receive(ifs[i])
       IN IF ~got.ret.has_value
          THEN RouteLoop(ifs, table, i + 1, log)
          ELSE LET one == RouteDatagram([ifs EXCEPT ![i] = got.nif], table, i - 1,
                                        got.ret.value)
               IN IF one.status # "running"
                  THEN [ifs |-> one.ifs, status |-> one.status, log |-> Append(log, one.rec)]
                  ELSE RouteLoop(one.ifs, table, i, Append(log, one.rec))

route(ifs, table) == RouteLoop(ifs, table, 1, << >>)

\* What interfaces_[n] with n out of range, which is undefined behaviour,
\* can do to route(): "crash", the process dies inside route(); "stray",
\* the send_datagram call works on memory behind the vector and route()
\* goes on with the next datagram.
RouteUndefined == {"crash", "stray"}

\* route() going on after every stray call, from the log so far.
RECURSIVE RoutePastStray(_, _, _)
RoutePastStray(ifs, table, log) ==
  LET r == RouteLoop(ifs, table, 1, log)
  IN IF r.status = "undefined" THEN RoutePastStray(r.ifs, table, r.log) ELSE r

\* route() with the given outcome of its undefined behaviour, if it has any.
routeWith(ifs, table, outcome) ==
  IF outcome = "crash" THEN route(ifs, table) ELSE RoutePastStray(ifs, table, << >>)

add_route(table, route_prefix, prefix_length, next_hop, interface_num) ==
  Append(table, RoutingTableEntry(route_prefix, prefix_length, next_hop, interface_num))

add_interface(ifs, interface) == Append(ifs, interface)

----------------------------------------------------------------------------
(* History bookkeeping *)

Observed(what, new, old) == IF what \in observe THEN new ELSE old

Count(f, k) == IF k \in DOMAIN f THEN f[k] ELSE 0

\* The frames a call pushed onto a TX queue that it did not pop from.
Pushed(old, new) == SubSeq(new.ReadyToBeSentQueue, Len(old.ReadyToBeSentQueue) + 1,
                           Len(new.ReadyToBeSentQueue))

isArpRequestFor(frame, ip) ==
  /\ frame.type = TYPE_ARP
  /\ frame.payload.kind = "arp"
  /\ frame.payload.arp.opcode = OPCODE_REQUEST
  /\ frame.payload.arp.target_ip_address = ip

NumArpRequests(frames, ip) ==
  Cardinality({k \in 1..Len(frames) : isArpRequestFor(frames[k], ip)})

RequestedIps(frames) ==
  {frames[k].payload.arp.target_ip_address :
     k \in {j \in 1..Len(frames) : frames[j].type = TYPE_ARP /\ frames[j].payload.kind = "arp"
                                   /\ frames[j].payload.arp.opcode = OPCODE_REQUEST}}

CachedIps(nif) == {nif.ARPTable[k].ip_address : k \in 1..Len(nif.ARPTable)}
QueuedIps(nif) == {nif.IPQueues[k].ip_address : k \in 1..Len(nif.IPQueues)}

\* arpRequests after a step that took the interfaces from old to new
\* pushing frames only.
CountRequests(f, old, new) ==
  LET keys == DOMAIN f \cup
              UNION {{<<i, ip>> : ip \in RequestedIps(Pushed(old[i], new[i]))} : i \in 1..Len(old)}
  IN [k \in keys |-> Count(f, k) + NumArpRequests(Pushed(old[k[1]], new[k[1]]), k[2])]

\* insertions after a step made of send_datagram calls only: an entry was
\* inserted for every IP that had none before and has one now.
CountInsertions(f, old, new) ==
  LET fresh == UNION {{<<i, ip>> : ip \in CachedIps(new[i]) \ CachedIps(old[i])} : i \in 1..Len(old)}
  IN [k \in DOMAIN f \cup fresh |-> Count(f, k) + IF k \in fresh THEN 1 ELSE 0]

QueuedIds(nif) ==
  UNION {{nif.IPQueues[k].datagrams[j].id : j \in 1..Len(nif.IPQueues[k].datagrams)} :
           k \in 1..Len(nif.IPQueues)}

TxIds(nif) ==
  {nif.ReadyToBeSentQueue[k].payload.dgram.id :
     k \in {j \in 1..Len(nif.ReadyToBeSentQueue) : nif.ReadyToBeSentQueue[j].type = TYPE_IPv4}}

----------------------------------------------------------------------------
(* Inputs *)

\* size_t values of the tick argument, as 16-bit limbs: 0, 15000 and
\* 2^32 - 5000, which static_cast<int> turns into -5000.
TickValues == { <<0, 0, 0, 0>>, <<0, 0, 0, 15000>>, <<0, 0, 65535, 60536>> }

\* The stations that send ARP: A, and B which also claims A's IP address.
Senders == { <<MacA, IpA>>, <<MacB, IpA>>, <<MacB, IpB>> }

ArpMessages ==
  { makeArp(op, s[1], s[2], ZeroMac, t) :
      op \in {OPCODE_REQUEST, OPCODE_REPLY}, s \in Senders, t \in {OwnIp(1), IpB} }

ArpFrame(a, dst) == makeFrame(a.sender_ethernet_address, dst, TYPE_ARP, serializeArp(a))

\* Frames the driver delivers to interface 1: ARP frames addressed to it,
\* broadcast, or addressed to another station; IPv4 frames; frames whose
\* payload does not parse or whose type is neither IPv4 nor ARP (IPv6, 0x86DD).
InFrames ==
  { ArpFrame(a, OwnMac(1)) : a \in ArpMessages }
  \cup { ArpFrame(a, ETHERNET_BROADCAST) :
           a \in {m \in ArpMessages : m.opcode = OPCODE_REQUEST /\ m.sender_ethernet_address = MacA} }
  \cup { ArpFrame(a, MacB) :
           a \in {m \in ArpMessages : m.sender_ethernet_address = MacA /\ m.target_ip_address = OwnIp(1)} }
  \cup { makeFrame(MacA, dst, TYPE_IPv4, serializeDgram(Datagram(0, OwnIp(1), 64))) :
           dst \in {OwnMac(1), MacB} }
  \cup { makeFrame(MacA, OwnMac(1), TYPE_ARP, BadPayload),
         makeFrame(MacA, OwnMac(1), TYPE_IPv4, BadPayload),
         makeFrame(MacA, OwnMac(1), 34525, BadPayload) }

----------------------------------------------------------------------------
(* The host drives one interface *)

InitObserving(what) ==
  /\ interfaces = <<NetworkInterface(OwnMac(1), OwnIp(1))>>
  /\ RoutingTable = << >>
  /\ status = "running"
  /\ last = [op |-> "init"]
  /\ nextId = 0
  /\ arpRequests = << >>
  /\ insertions = << >>
  /\ dropped = {}
  /\ expired = {}
  /\ routeLog = << >>
  /\ observe = what

Init == InitObserving({})

\* interfaces[i].send_datagram(dgram, next_hop)
SendDatagramStep(i, dgram, next_hop) ==
  \E r \in {send_datagram(interfaces[i], dgram, next_hop)} :
  \E new \in {[interfaces EXCEPT ![i] = r.nif]} :
     /\ status = "running"
     /\ nextId < MaxDgrams
     /\ Len(r.nif.ReadyToBeSentQueue) <= MaxTx
     /\ interfaces' = new
     /\ status' = IF r.exited THEN "exit" ELSE "running"
     /\ last' = [op |-> "send_datagram", i |-> i, next_hop |-> next_hop]
     /\ nextId' = nextId + 1
     /\ arpRequests' = Observed("requests", CountRequests(arpRequests, interfaces, new), arpRequests)
     /\ insertions' = Observed("requests", CountInsertions(insertions, interfaces, new), insertions)
     /\ routeLog' = << >>
     /\ expired' = expired \ {<<i, next_hop>>}
     /\ UNCHANGED <<RoutingTable, dropped, observe>>

\* The host sends a datagram it has not sent before.
SendDatagram(i) ==
  \E next_hop \in PeerIps : SendDatagramStep(i, Datagram(nextId + 1, next_hop, 64), next_hop)

\* interfaces[i].NetworkInterface::recv_frame(frame); the host gets ret
RecvFrameStep(i, frame) ==
  \E r \in {recv_frame(interfaces[i], frame)} :
  \E new \in {[interfaces EXCEPT ![i] = r.nif]} :
     /\ status = "running"
     /\ Len(r.nif.ReadyToBeSentQueue) <= MaxTx
     /\ interfaces' = new
     /\ status' = IF r.exited THEN "exit" ELSE "running"
     /\ last' = [op |-> "recv_frame", i |-> i, accepted |-> isDestined(interfaces[i], frame),
                 type |-> frame.type, returned |-> r.ret.has_value]
     /\ arpRequests' = Observed("requests", CountRequests(arpRequests, interfaces, new), arpRequests)
     /\ routeLog' = << >>
     /\ UNCHANGED <<RoutingTable, nextId, insertions, dropped, expired, observe>>

RecvFrame(i) == \E frame \in InFrames : RecvFrameStep(i, frame)

\* interfaces[i].tick(ms)
TickStep(i, ms) ==
  \E r \in {tick(interfaces[i], ms)} :
     /\ status = "running"
     /\ ToInt(ms) < 0 =>
           \A k \in 1..Len(interfaces[i].ARPTable) :
              interfaces[i].ARPTable[k].ttl - ToInt(ms) <= MaxTtl
     /\ interfaces' = [interfaces EXCEPT ![i] = r.nif]
     /\ status' = IF r.exited THEN "exit" ELSE "running"
     /\ last' = [op |-> "tick", i |-> i]
     /\ dropped' = Observed("drops", dropped \cup (QueuedIds(interfaces[i]) \ QueuedIds(r.nif)), dropped)
     /\ routeLog' = << >>
     /\ expired' = Observed("drops", expired \cup {<<i, ip>> : ip \in QueuedIps(interfaces[i]) \ QueuedIps(r.nif)},
                          expired)
     /\ UNCHANGED <<RoutingTable, nextId, arpRequests, insertions, observe>>

Tick(i) == \E ms \in TickValues : TickStep(i, ms)

\* interfaces[i].maybe_send()
MaybeSend(i) ==
  \E r \in {maybe_send(interfaces[i])} :
     /\ status = "running"
     /\ interfaces' = [interfaces EXCEPT ![i] = r.nif]
     /\ last' = [op |-> "maybe_send", i |-> i, returned |-> r.ret.has_value, ret |-> r.ret]
     /\ routeLog' = << >>
     /\ UNCHANGED <<RoutingTable, status, nextId, arpRequests, insertions, dropped, expired, observe>>

Next == SendDatagram(1) \/ RecvFrame(1) \/ Tick(1) \/ MaybeSend(1)

Spec == Init /\ [][Next]_vars

\* The same interface with the ARP requests and the insertions counted
RequestSpec == InitObserving({"requests"}) /\ [][Next]_vars

\* The same interface with the dropped datagrams and expired addresses recorded
DropSpec == InitObserving({"drops"}) /\ [][Next]_vars

\* The same interface with all of its history recorded
HistorySpec == InitObserving({"requests", "drops"}) /\ [][Next]_vars

\* The interface of a host that keeps calling maybe_send
LiveSpec == Init /\ [][Next]_vars /\ WF_vars(MaybeSend(1))

----------------------------------------------------------------------------
(* The host drives a router *)

Gateway == <<10, 0, 0, 7>>

\* The routes the host may add: a default route via the gateway,
\* 10.0.0.0/8, 10.1.2.0/23 twice (directly attached to interface 0, via the
\* gateway on interface 1), the host route 10.1.2.3/32, and 10.1.0.0/16 on
\* an interface the router does not have.
RouteChoices ==
  { RoutingTableEntry(<<0, 0, 0, 0>>, 0, Some(Gateway), 1),
    RoutingTableEntry(<<10, 0, 0, 0>>, 8, Nothing, 1),
    RoutingTableEntry(<<10, 1, 2, 0>>, 23, Nothing, 0),
    RoutingTableEntry(<<10, 1, 2, 0>>, 23, Some(Gateway), 1),
    RoutingTableEntry(<<10, 1, 2, 3>>, 32, Nothing, 1),
    RoutingTableEntry(<<10, 1, 0, 0>>, 16, Some(Gateway), 2) }

\* <<dst, ttl>> of the datagrams that arrive
InDgrams ==
  { << <<10, 1, 2, 3>>, 2 >>, << <<10, 1, 3, 9>>, 1 >>, << <<10, 1, 3, 9>>, 255 >>,
    << <<10, 1, 4, 1>>, 64 >>, << <<192, 168, 0, 1>>, 0 >> }

\* Frames the driver delivers to interface i of the router: IPv4 frames
\* carrying a datagram not seen before and, on the second interface, whose
\* network the gateway is on, the gateway's ARP reply.
RouterInFrames(i) ==
  { makeFrame(MacB, OwnMac(i), TYPE_IPv4, serializeDgram(Datagram(nextId + 1, d[1], d[2]))) :
      d \in InDgrams }
  \cup (IF i = 2
        THEN { ArpFrame(makeArp(OPCODE_REPLY, MacA, Gateway, OwnMac(i), OwnIp(i)), OwnMac(i)) }
        ELSE {})

RouterInit ==
  /\ interfaces = << >>
  /\ RoutingTable = << >>
  /\ status = "running"
  /\ last = [op |-> "init"]
  /\ nextId = 0
  /\ arpRequests = << >>
  /\ insertions = << >>
  /\ dropped = {}
  /\ expired = {}
  /\ routeLog = << >>
  /\ observe = {}

\* router.add_interface( AsyncNetworkInterface( mac, ip ) )
AddInterface ==
  /\ status = "running"
  /\ Len(interfaces) < MaxInterfaces
  /\ interfaces' = add_interface(interfaces,
                                 NetworkInterface(OwnMac(Len(interfaces) + 1),
                                                  OwnIp(Len(interfaces) + 1)))
  /\ last' = [op |-> "add_interface", i |-> Len(interfaces) + 1]
  /\ routeLog' = << >>
  /\ UNCHANGED <<RoutingTable, status, nextId, arpRequests, insertions, dropped, expired, observe>>

\* router.add_route( route_prefix, prefix_length, next_hop, interface_num )
AddRoute ==
  \E e \in RouteChoices :
    /\ status = "running"
    /\ Len(RoutingTable) < MaxRoutes
    /\ RoutingTable' = add_route(RoutingTable, e.route_prefix, e.prefix_length, e.next_hop,
                                 e.interface_num)
    /\ last' = [op |-> "add_route"]
    /\ routeLog' = << >>
    /\ UNCHANGED <<interfaces, status, nextId, arpRequests, insertions, dropped, expired, observe>>

\* router.interface(i).recv_frame(frame), the AsyncNetworkInterface one
AsyncRecvFrameStep(i, frame) ==
  \E r \in {async_recv_frame(interfaces[i], frame)} :
  \E new \in {[interfaces EXCEPT ![i] = r.nif]} :
     /\ status = "running"
     /\ frame.type = TYPE_IPv4 => nextId < MaxDgrams
     /\ Len(r.nif.ReadyToBeSentQueue) <= MaxTx
     /\ interfaces' = new
     /\ status' = IF r.exited THEN "exit" ELSE "running"
     /\ last' = [op |-> "recv_frame", i |-> i, accepted |-> isDestined(interfaces[i], frame),
                 type |-> frame.type, returned |-> r.ret.has_value]
     /\ nextId' = IF frame.type = TYPE_IPv4 THEN nextId + 1 ELSE nextId
     /\ arpRequests' = Observed("requests", CountRequests(arpRequests, interfaces, new), arpRequests)
     /\ routeLog' = << >>
     /\ UNCHANGED <<RoutingTable, insertions, dropped, expired, observe>>

AsyncRecvFrame ==
  \E i \in 1..Len(interfaces) : \E frame \in RouterInFrames(i) : AsyncRecvFrameStep(i, frame)

\* router.route()
Route ==
  \E outcome \in RouteUndefined :
  \E r \in {routeWith(interfaces, RoutingTable, outcome)} :
     /\ status = "running"
     /\ \A i \in 1..Len(r.ifs) : Len(r.ifs[i].ReadyToBeSentQueue) <= MaxTx
     /\ interfaces' = r.ifs
     /\ status' = r.status
     /\ last' = [op |-> "route"]
     /\ routeLog' = r.log
     /\ arpRequests' = Observed("requests", CountRequests(arpRequests, interfaces, r.ifs), arpRequests)
     /\ insertions' = Observed("requests", CountInsertions(insertions, interfaces, r.ifs), insertions)
     /\ expired' = expired \ {<<rec.interface_num + 1, rec.next_hop.value>> :
                               rec \in {r.log[k] : k \in {j \in 1..Len(r.log) : r.log[j].forwarded}}}
     /\ UNCHANGED <<RoutingTable, nextId, dropped, observe>>

RouterMaybeSend == \E i \in 1..Len(interfaces) : MaybeSend(i)

RouterNext == AddInterface \/ AddRoute \/ AsyncRecvFrame \/ Route \/ RouterMaybeSend

RouterSpec == RouterInit /\ [][RouterNext]_vars

----------------------------------------------------------------------------
(* Properties of the interface, checked under Spec, RequestSpec and DropSpec *)

EntriesFor(nif, ip) ==
  {nif.ARPTable[k] : k \in {j \in 1..Len(nif.ARPTable) : nif.ARPTable[j].ip_address = ip}}
HasPending(nif, ip) == \E e \in EntriesFor(nif, ip) : ~e.complete_entry
HasResolved(nif, ip) == \E e \in EntriesFor(nif, ip) : e.complete_entry
HasQueue(nif, ip) == ip \in QueuedIps(nif)
KnownIps(nif) == PeerIps \cup CachedIps(nif) \cup QueuedIps(nif)

\* The frame is addressed to the interface or to everyone.
ForUs(nif, frame) == frame.dst \in {nif.ethernet_address_, ETHERNET_BROADCAST}

isAcceptedArp(nif, frame) ==
  ForUs(nif, frame) /\ frame.type = TYPE_ARP /\ frame.payload.kind = "arp"

QueueOf(nif, ip) ==
  LET ks == {k \in 1..Len(nif.IPQueues) : nif.IPQueues[k].ip_address = ip}
  IN IF ks = {} THEN << >> ELSE nif.IPQueues[CHOOSE k \in ks : TRUE].datagrams

Ipv4Frame(nif, mac, dgram) == makeFrame(nif.ethernet_address_, mac, TYPE_IPv4, serializeDgram(dgram))

ArpRequestFrame(nif, ip) ==
  makeFrame(nif.ethernet_address_, ETHERNET_BROADCAST, TYPE_ARP,
            serializeArp(makeArp(OPCODE_REQUEST, nif.ethernet_address_, nif.ip_address_,
                                 ZeroMac, ip)))

ArpReplyFrame(nif, arp) ==
  makeFrame(nif.ethernet_address_, arp.sender_ethernet_address, TYPE_ARP,
            serializeArp(makeArp(OPCODE_REPLY, nif.ethernet_address_, nif.ip_address_,
                                 arp.sender_ethernet_address, arp.sender_ip_address)))

ArpFramesOf(frames) == SelectSeq(frames, LAMBDA f : f.type = TYPE_ARP)

\* C1: in every reachable state and for every IP, the cache holds a Pending
\* entry for the IP exactly when an IP queue exists for it, and a Resolved
\* entry for the IP excludes an IP queue for it.
C1_PendingIffQueue ==
  \A ip \in KnownIps(interfaces[1]) :
    /\ HasPending(interfaces[1], ip) <=> HasQueue(interfaces[1], ip)
    /\ HasResolved(interfaces[1], ip) => ~HasQueue(interfaces[1], ip)

\* C1, its case: one address is Pending with its queue while the other has
\* been resolved, after time has passed.
C1_Witness ==
  /\ last.op = "tick"
  /\ HasPending(interfaces[1], IpA) /\ HasQueue(interfaces[1], IpA)
  /\ HasResolved(interfaces[1], IpB)

\* C2: after recv_frame accepts an ARP frame carrying sender pair (M, P),
\* the cache entry for P is Resolved with mac = M and ttl = 30000, whatever
\* the entry was before.
C2_SenderLearned ==
  [][\A frame \in InFrames :
       (/\ last'.op = "recv_frame"
        /\ isAcceptedArp(interfaces[1], frame)
        /\ RecvFrameStep(1, frame))
       => EntriesFor(interfaces'[1], frame.payload.arp.sender_ip_address)
            = {ARPTableEntry(TRUE, frame.payload.arp.sender_ip_address,
                             frame.payload.arp.sender_ethernet_address, RESOLVED_TTL)}]_vars


\* C3: for every IP, the ARP REQUEST frames enqueued for it never outnumber
\* the cache entries send_datagram has inserted for it: one request at most
\* between two insertions.
C3_OneRequestPerInsertion ==
  \A ip \in KnownIps(interfaces[1]) :
    Count(arpRequests, <<1, ip>>) <= Count(insertions, <<1, ip>>)

\* C3, its case: two send_datagram calls for the same unresolved IP, one request.
C3_Witness ==
  /\ last.op = "send_datagram"
  /\ Len(QueueOf(interfaces[1], last.next_hop)) = 2
  /\ Count(arpRequests, <<1, last.next_hop>>) = 1

\* C4: when recv_frame accepts an ARP frame whose sender IP has a Pending
\* entry, the frames it appends to TX start with one IPv4 frame per queued
\* datagram, from the own MAC to the sender MAC, in queue order, which is
\* the order of the send_datagram calls (ascending ids), and the IP queue
\* of the sender is gone.
C4_DrainInOrder ==
  [][\A frame \in InFrames :
       (/\ last'.op = "recv_frame"
        /\ isAcceptedArp(interfaces[1], frame)
        /\ HasPending(interfaces[1], frame.payload.arp.sender_ip_address)
        /\ RecvFrameStep(1, frame))
       => LET nif == interfaces[1]
              arp == frame.payload.arp
              q == QueueOf(nif, arp.sender_ip_address)
              pushed == Pushed(nif, interfaces'[1])
          IN /\ Len(q) >= 1 /\ Len(pushed) >= Len(q)
             /\ \A k \in 1..Len(q) :
                   pushed[k] = Ipv4Frame(nif, arp.sender_ethernet_address, q[k])
             /\ \A k \in 1..(Len(q) - 1) : q[k].id < q[k + 1].id
             /\ \A k \in (Len(q) + 1)..Len(pushed) : pushed[k].type # TYPE_IPv4
             /\ ~HasQueue(interfaces'[1], arp.sender_ip_address)]_vars

\* C4, its case: an ARP frame has resolved an IP with two queued datagrams.
C4_Witness ==
  /\ last.op = "recv_frame"
  /\ HasResolved(interfaces[1], IpA)
  /\ Len(interfaces[1].ReadyToBeSentQueue) = 2
  /\ \A k \in 1..2 : /\ interfaces[1].ReadyToBeSentQueue[k].type = TYPE_IPv4
                     /\ interfaces[1].ReadyToBeSentQueue[k].payload.dgram.id = k

\* What tick does to a Pending entry that runs out, and that none of its
\* datagrams is in a queue or in a frame afterwards.
C5_ExpiryDrops ==
  /\ \A ms \in TickValues : \A ip \in KnownIps(interfaces[1]) :
       (/\ last'.op = "tick"
        /\ \E e \in EntriesFor(interfaces[1], ip) : ~e.complete_entry /\ e.ttl - ToInt(ms) <= 0
        /\ TickStep(1, ms))
       => /\ EntriesFor(interfaces'[1], ip) = {}
          /\ ~HasQueue(interfaces'[1], ip)
          /\ \A k \in 1..Len(QueueOf(interfaces[1], ip)) :
                QueueOf(interfaces[1], ip)[k].id \in dropped'
  /\ dropped' \cap (TxIds(interfaces'[1]) \cup QueuedIds(interfaces'[1])) = {}

\* C5 as stated: when tick has run a Pending entry for P down to 0, it
\* removes the entry and the queue, none of the queued datagrams is emitted
\* afterwards, and the next send_datagram to P enqueues a new broadcast ARP
\* request for P.
C5_NextSendRequests ==
  [][/\ C5_ExpiryDrops
     /\ \A ip \in PeerIps :
          (/\ last'.op = "send_datagram" /\ <<1, ip>> \in expired
           /\ SendDatagramStep(1, Datagram(nextId + 1, ip, 64), ip))
          => Pushed(interfaces[1], interfaces'[1]) = <<ArpRequestFrame(interfaces[1], ip)>>]_vars

\* C5 as amended: ... and the next send_datagram to P, made while the cache
\* has no entry for P, enqueues a new broadcast ARP request for P.
C5_NextSendRequestsIfAbsent ==
  [][/\ C5_ExpiryDrops
     /\ \A ip \in PeerIps :
          (/\ last'.op = "send_datagram" /\ <<1, ip>> \in expired
           /\ EntriesFor(interfaces[1], ip) = {}
           /\ SendDatagramStep(1, Datagram(nextId + 1, ip, 64), ip))
          => Pushed(interfaces[1], interfaces'[1]) = <<ArpRequestFrame(interfaces[1], ip)>>]_vars

\* C5, its case: the first datagram was dropped with its Pending entry, and
\* the next send_datagram to the same IP has sent the second ARP request.
C5_Witness ==
  /\ last.op = "send_datagram"
  /\ dropped = {1}
  /\ interfaces[1].ReadyToBeSentQueue
       = <<ArpRequestFrame(interfaces[1], last.next_hop),
           ArpRequestFrame(interfaces[1], last.next_hop)>>
  /\ QueuedIds(interfaces[1]) = {2}

\* C6: recv_frame appends an ARP frame to TX exactly when the frame it
\* accepted is an ARP REQUEST for the interface's own IP, and that frame is
\* the REPLY to the sender; an ARP REPLY or a REQUEST for another IP leaves
\* the sender Resolved in the cache and appends no ARP frame.
C6_ReplyIffRequestForUs ==
  [][\A frame \in InFrames :
       (/\ last'.op = "recv_frame"
        /\ last'.type = frame.type /\ last'.accepted = ForUs(interfaces[1], frame)
        /\ RecvFrameStep(1, frame))
       => LET nif == interfaces[1]
              arps == ArpFramesOf(Pushed(nif, interfaces'[1]))
          IN IF isAcceptedArp(nif, frame)
                /\ frame.payload.arp.opcode = OPCODE_REQUEST
                /\ frame.payload.arp.target_ip_address = nif.ip_address_
             THEN arps = <<ArpReplyFrame(nif, frame.payload.arp)>>
             ELSE /\ arps = << >>
                  /\ isAcceptedArp(nif, frame)
                     => HasResolved(interfaces'[1], frame.payload.arp.sender_ip_address)]_vars

\* C6, its case: a request for the own IP has been answered.
C6_Witness ==
  /\ last.op = "recv_frame"
  /\ Len(interfaces[1].ReadyToBeSentQueue) >= 1
  /\ LET f == interfaces[1].ReadyToBeSentQueue[Len(interfaces[1].ReadyToBeSentQueue)]
     IN /\ f.type = TYPE_ARP /\ f.payload.arp.opcode = OPCODE_REPLY
        /\ f.dst = f.payload.arp.target_ethernet_address

\* C7: recv_frame on a frame addressed neither to the interface nor to the
\* broadcast address returns nothing and leaves the whole interface as it was.
C7_ForeignFrameIgnored ==
  [][\A frame \in InFrames :
       (/\ last'.op = "recv_frame"
        /\ ~ForUs(interfaces[1], frame)
        /\ RecvFrameStep(1, frame))
       => /\ interfaces' = interfaces
          /\ ~last'.returned
          /\ status' = status]_vars

\* C7, its case: a foreign frame arrived at an interface with a cache
\* entry, a queue and a frame waiting.
C7_Witness ==
  /\ last.op = "recv_frame" /\ ~last.accepted
  /\ interfaces[1].ARPTable # << >>
  /\ interfaces[1].IPQueues # << >>
  /\ interfaces[1].ReadyToBeSentQueue # << >>

(***************************************************************************)
(* Properties of the router, checked under RouterSpec *)

\* The top len bits of the two addresses are the same.
TopBitsAgree(ip1, ip2, len) ==
  \A b1 \in {Bits(ip1)} : \A b2 \in {Bits(ip2)} : \A k \in 1..len : b1[k] = b2[k]

Forwarded(log) == {log[k] : k \in {j \in 1..Len(log) : log[j].forwarded}}
NotForwarded(log) == {log[k] : k \in {j \in 1..Len(log) : ~log[j].forwarded}}

\* The datagrams an interface holds for sending, in frames or in IP queues
HeldDgrams(nif) ==
  {nif.ReadyToBeSentQueue[k].payload.dgram :
     k \in {j \in 1..Len(nif.ReadyToBeSentQueue) :
              nif.ReadyToBeSentQueue[j].type = TYPE_IPv4}}
  \cup UNION {{q.datagrams[k] : k \in 1..Len(q.datagrams)} :
               q \in {nif.IPQueues[k] : k \in 1..Len(nif.IPQueues)}}

\* An interface without the datagrams it has received
Outbound(nif) == [nif EXCEPT !.datagrams_in_ = << >>]

\* C8: for every datagram route() has forwarded, the entry used is in the
\* table, agrees with the destination on its top prefix_length bits, and no
\* entry of the table that agrees with the destination on its own top bits
\* has a greater prefix_length.
C8_LongestMatchUsed ==
  \A rec \in Forwarded(routeLog) :
    /\ \E j \in 1..Len(RoutingTable) : RoutingTable[j] = rec.table_entry
    /\ rec.table_entry.prefix_length \in 0..32
    /\ TopBitsAgree(rec.received.dst, rec.table_entry.route_prefix,
                    rec.table_entry.prefix_length)
    /\ \A j \in 1..Len(RoutingTable) :
          TopBitsAgree(rec.received.dst, RoutingTable[j].route_prefix,
                       RoutingTable[j].prefix_length)
          => RoutingTable[j].prefix_length <= rec.table_entry.prefix_length

\* C8, its case: a datagram was forwarded by the longer of two matching
\* entries, the first of the table, and a shorter one follows it.
C8_Witness ==
  /\ last.op = "route" /\ Len(RoutingTable) = 2
  /\ \E rec \in Forwarded(routeLog) :
        /\ rec.table_entry = RoutingTable[1]
        /\ RoutingTable[2].prefix_length \in 1..(RoutingTable[1].prefix_length - 1)
        /\ TopBitsAgree(rec.received.dst, RoutingTable[2].route_prefix,
                        RoutingTable[2].prefix_length)

\* C9: route() calls send_datagram for no datagram received with ttl 0 or
\* 1, such a datagram is in no frame and in no IP queue afterwards, and a
\* route() that took only such datagrams leaves the TX queue, the ARP cache
\* and the IP queues of every interface as they were.
C9_TtlExpiredDropped ==
  [][last'.op = "route" =>
       /\ \A rec \in Forwarded(routeLog') : rec.received.ttl > 1
       /\ \A rec \in NotForwarded(routeLog') : \A i \in 1..Len(interfaces') :
             /\ rec.received.id \notin {d.id : d \in HeldDgrams(interfaces'[i])}
             /\ \A k \in 1..Len(interfaces'[i].datagrams_in_) :
                   interfaces'[i].datagrams_in_[k].id # rec.received.id
       /\ (\A k \in 1..Len(routeLog') : routeLog'[k].received.ttl <= 1)
          => /\ Len(interfaces') = Len(interfaces)
             /\ \A i \in 1..Len(interfaces) : Outbound(interfaces'[i]) = Outbound(interfaces[i])
             /\ status' = status]_vars

\* C9, its case: a datagram with ttl 1 that a route matches was taken by
\* route() and not forwarded.
C9_Witness ==
  /\ last.op = "route"
  /\ \E k \in 1..Len(routeLog) :
        /\ routeLog[k].received.ttl = 1 /\ routeLog[k].matched /\ ~routeLog[k].forwarded

\* C10: every datagram route() hands to send_datagram has the received ttl
\* minus 1, between 1 and 254, carries the checksum of the header with the
\* decremented ttl, and is the datagram the interface holds afterwards.
C10_TtlDecrementedThenChecksum ==
  \A rec \in Forwarded(routeLog) :
    /\ rec.dgram.ttl = rec.received.ttl - 1
    /\ rec.dgram.ttl \in 1..254
    /\ rec.dgram.id = rec.received.id /\ rec.dgram.dst = rec.received.dst
    /\ rec.dgram.cksum = HeaderChecksum(rec.dgram.ttl, rec.dgram.dst)
    /\ rec.dgram.cksum # rec.received.cksum
    /\ (status = "running" /\ rec.interface_num + 1 <= Len(interfaces))
       => rec.dgram \in HeldDgrams(interfaces[rec.interface_num + 1])

\* C10, its case: datagrams received with ttl 2 and with ttl 255 have been
\* forwarded.
C10_Witness ==
  /\ last.op = "route" /\ status = "running"
  /\ \E r1, r2 \in Forwarded(routeLog) :
        /\ r1.received.ttl = 2 /\ r1.dgram.ttl = 1
        /\ r2.received.ttl = 255 /\ r2.dgram.ttl = 254

\* The next hop the chosen entry asks for
HopOf(rec) ==
  IF rec.table_entry.next_hop.has_value THEN rec.table_entry.next_hop.value
  ELSE rec.received.dst

\* The interfaces after one send_datagram per forwarded datagram of the log
\* from position k on, each on the interface its entry names.
RECURSIVE OneSendEach(_, _, _)
OneSendEach(ifs, log, k) ==
  IF k > Len(log) THEN ifs
  ELSE IF log[k].forwarded /\ log[k].table_entry.interface_num + 1 <= Len(ifs)
       THEN LET n == log[k].table_entry.interface_num + 1
            IN OneSendEach([ifs EXCEPT ![n] = send_datagram(ifs[n], log[k].dgram,
                                                             HopOf(log[k])).nif],
                           log, k + 1)
       ELSE OneSendEach(ifs, log, k + 1)

\* C11: what route() does to the interfaces, their received datagrams
\* aside, is one send_datagram per forwarded datagram, on the interface
\* E.interface_num of the chosen entry E, with E.next_hop as the next hop
\* when E has one and the destination of the datagram when it has none; no
\* other interface changes.
C11_OneSendOnEntryInterface ==
  [][last'.op = "route" =>
       /\ Len(interfaces') = Len(interfaces)
       /\ \A rec \in Forwarded(routeLog') :
             rec.next_hop = Some(HopOf(rec)) /\ rec.interface_num = rec.table_entry.interface_num
       /\ LET want == OneSendEach([i \in 1..Len(interfaces) |-> Outbound(interfaces[i])],
                                  routeLog', 1)
          IN \A i \in 1..Len(interfaces) : Outbound(interfaces'[i]) = want[i]]_vars

\* C11, its case: route() has forwarded one datagram by an entry with a next
\* hop and one by an entry without, out of interfaces other than the ones
\* they came in on.
C11_Witness ==
  /\ last.op = "route" /\ status = "running"
  /\ \E r1, r2 \in Forwarded(routeLog) :
        /\ r1.table_entry.next_hop.has_value /\ ~r2.table_entry.next_hop.has_value
        /\ r1.interface_num # r1.ingress
        /\ r1.interface_num # r2.interface_num
        /\ r1.interface_num + 1 <= Len(interfaces)
        /\ r2.interface_num + 1 <= Len(interfaces)
        /\ \E d \in HeldDgrams(interfaces[r1.interface_num + 1]) : d.id = r1.received.id
        /\ \E d \in HeldDgrams(interfaces[r2.interface_num + 1]) : d.id = r2.received.id

\* No entry of the table agrees with the address on its top prefix_length bits.
NoRouteFor(table, dst) ==
  \A j \in 1..Len(table) : ~TopBitsAgree(dst, table[j].route_prefix, table[j].prefix_length)

\* C12: route() calls send_datagram for no datagram whose destination no
\* entry of the table matches, the empty table included; such a datagram
\* is in no frame and no IP queue afterwards, and a route() that took only
\* such datagrams changes nothing but the received datagrams of the
\* interfaces it took them from.
C12_NoMatchDropped ==
  [][(last'.op = "route" /\ routeLog' # << >>) =>
       \A unmatched \in {{k \in 1..Len(routeLog') :
                             NoRouteFor(RoutingTable, routeLog'[k].received.dst)}} :
         /\ \A k \in unmatched :
               /\ ~routeLog'[k].forwarded
               /\ \A i \in 1..Len(interfaces') :
                     routeLog'[k].received.id \notin {d.id : d \in HeldDgrams(interfaces'[i])}
         /\ unmatched = 1..Len(routeLog')
            => /\ Len(interfaces') = Len(interfaces)
               /\ \A i \in 1..Len(interfaces) :
                     /\ Outbound(interfaces'[i]) = Outbound(interfaces[i])
                     /\ interfaces'[i].datagrams_in_ = << >>
               /\ RoutingTable' = RoutingTable
               /\ status' = status]_vars

\* C12, its case: route() took a datagram with ttl above 1 that no entry
\* of a table with two entries matches, and did not forward it.
C12_Witness ==
  /\ last.op = "route" /\ Len(RoutingTable) = 2
  /\ \E k \in 1..Len(routeLog) :
        /\ routeLog[k].received.ttl > 1
        /\ NoRouteFor(RoutingTable, routeLog[k].received.dst)
        /\ ~routeLog[k].forwarded

\* C12, the empty table: route() took a datagram with ttl above 1 while the
\* table had no entry, and did not forward it.
C12_WitnessEmptyTable ==
  /\ last.op = "route" /\ RoutingTable = << >>
  /\ \E k \in 1..Len(routeLog) : routeLog[k].received.ttl > 1 /\ ~routeLog[k].forwarded

(***************************************************************************)
(* send_datagram on one interface, checked under Spec *)

\* Everything the interface keeps for the other addresses is as it was.
OthersUntouched(old, new, ip) ==
  \A o \in (KnownIps(old) \cup KnownIps(new)) \ {ip} :
    EntriesFor(new, o) = EntriesFor(old, o) /\ QueueOf(new, o) = QueueOf(old, o)

\* C13: send_datagram(dgram, P) with no entry for P in the cache leaves one
\* entry for P, Pending with ttl 5000, and one IP queue for P holding dgram
\* alone, and appends to TX one frame, the broadcast ARP REQUEST for P from
\* the own MAC and IP with target MAC zero, and no IPv4 frame.
C13_AbsentSendsRequest ==
  [][\A ip \in PeerIps :
       (/\ last'.op = "send_datagram" /\ last'.next_hop = ip
        /\ EntriesFor(interfaces[1], ip) = {})
       => LET nif == interfaces[1]
              new == interfaces'[1]
              dgram == Datagram(nextId + 1, ip, 64)
          IN /\ EntriesFor(new, ip) = {ARPTableEntry(FALSE, ip, ZeroMac, 5000)}
             /\ Len(new.ARPTable) = Len(nif.ARPTable) + 1
             /\ QueueOf(new, ip) = <<dgram>>
             /\ Len(new.IPQueues) = Len(nif.IPQueues) + 1
             /\ Pushed(nif, new) = <<ArpRequestFrame(nif, ip)>>
             /\ ArpRequestFrame(nif, ip).dst = ETHERNET_BROADCAST
             /\ ArpRequestFrame(nif, ip).type = TYPE_ARP
             /\ OthersUntouched(nif, new, ip)
             /\ status' = "running"]_vars

\* C13, its case: send_datagram for an address the cache did not know, at
\* an interface that knew the other address.
C13_Witness ==
  /\ last.op = "send_datagram"
  /\ EntriesFor(interfaces[1], last.next_hop) = {ARPTableEntry(FALSE, last.next_hop, ZeroMac, 5000)}
  /\ Len(QueueOf(interfaces[1], last.next_hop)) = 1
  /\ Len(interfaces[1].ARPTable) = 2
  /\ Len(interfaces[1].ReadyToBeSentQueue) >= 1
  /\ interfaces[1].ReadyToBeSentQueue[Len(interfaces[1].ReadyToBeSentQueue)]
       = ArpRequestFrame(interfaces[1], last.next_hop)

\* C14: send_datagram(dgram, P) with a Resolved entry for P appends to TX
\* one frame, the IPv4 frame from the own MAC to the cached MAC carrying
\* dgram, and leaves the cache, TTLs included, and the IP queues as they were.
C14_ResolvedSendsFrame ==
  [][\A ip \in PeerIps :
       (/\ last'.op = "send_datagram" /\ last'.next_hop = ip
        /\ HasResolved(interfaces[1], ip))
       => LET nif == interfaces[1]
              new == interfaces'[1]
              dgram == Datagram(nextId + 1, ip, 64)
          IN /\ \E e \in EntriesFor(nif, ip) :
                   Pushed(nif, new) = <<Ipv4Frame(nif, e.mac_address, dgram)>>
             /\ new.ARPTable = nif.ARPTable
             /\ new.IPQueues = nif.IPQueues
             /\ ~HasQueue(new, ip)
             /\ status' = "running"]_vars

\* C14, its case: a datagram has gone out to an address whose entry had
\* aged to 15000 and still has that TTL.
C14_Witness ==
  /\ last.op = "send_datagram"
  /\ \E e \in EntriesFor(interfaces[1], last.next_hop) : e.complete_entry /\ e.ttl = 15000
  /\ Len(interfaces[1].ReadyToBeSentQueue) >= 1
  /\ interfaces[1].ReadyToBeSentQueue[Len(interfaces[1].ReadyToBeSentQueue)].type = TYPE_IPv4

\* C15: send_datagram(dgram, P) with a Pending entry for P appends dgram at
\* the tail of the IP queue for P and changes nothing else: TX, the cache
\* with its TTLs and the other IP queues are as they were.
C15_PendingOnlyQueues ==
  [][\A ip \in PeerIps :
       (/\ last'.op = "send_datagram" /\ last'.next_hop = ip
        /\ HasPending(interfaces[1], ip))
       => LET nif == interfaces[1]
              new == interfaces'[1]
              dgram == Datagram(nextId + 1, ip, 64)
          IN /\ QueueOf(new, ip) = Append(QueueOf(nif, ip), dgram)
             /\ new.ReadyToBeSentQueue = nif.ReadyToBeSentQueue
             /\ new.ARPTable = nif.ARPTable
             /\ Len(new.IPQueues) = Len(nif.IPQueues)
             /\ OthersUntouched(nif, new, ip)
             /\ new.datagrams_in_ = nif.datagrams_in_
             /\ status' = "running"]_vars

\* C15, its case: a second datagram was queued behind the first for an
\* address whose Pending entry no longer has the TTL it started with.
C15_Witness ==
  /\ last.op = "send_datagram"
  /\ Len(QueueOf(interfaces[1], last.next_hop)) = 2
  /\ QueueOf(interfaces[1], last.next_hop)[1].id < QueueOf(interfaces[1], last.next_hop)[2].id
  /\ \E e \in EntriesFor(interfaces[1], last.next_hop) : ~e.complete_entry /\ e.ttl # 5000
  /\ interfaces[1].ReadyToBeSentQueue = <<ArpRequestFrame(interfaces[1], last.next_hop)>>

(***************************************************************************)
(* The TX queue, checked under Spec *)

isPrefix(s, t) == Len(s) <= Len(t) /\ SubSeq(t, 1, Len(s)) = s

\* C16: the TX queue is first in, first out. A maybe_send on a non-empty
\* queue returns its oldest frame and removes that frame alone; on an empty
\* queue it returns nothing and changes nothing; every other operation
\* keeps the frames waiting, in their order, and adds only behind them. So
\* the frames returned are, in order, the first frames enqueued, each once.
C16_TxFifo ==
  [][LET tx == interfaces[1].ReadyToBeSentQueue
         tx2 == interfaces'[1].ReadyToBeSentQueue
     IN IF last'.op = "maybe_send"
        THEN /\ last'.returned <=> tx # << >>
             /\ last'.ret.has_value <=> tx # << >>
             /\ tx # << >> => last'.ret.value = tx[1] /\ tx2 = SubSeq(tx, 2, Len(tx))
             /\ tx = << >> => tx2 = << >>
             /\ [interfaces'[1] EXCEPT !.ReadyToBeSentQueue = tx] = interfaces[1]
        ELSE isPrefix(tx, tx2)]_vars

\* C16, its case: of an ARP request and the IPv4 frame enqueued after it,
\* maybe_send has returned the request and the IPv4 frame waits.
C16_Witness ==
  /\ last.op = "maybe_send" /\ last.returned
  /\ last.ret.value.type = TYPE_ARP
  /\ Len(interfaces[1].ReadyToBeSentQueue) = 1
  /\ interfaces[1].ReadyToBeSentQueue[1].type = TYPE_IPv4
  /\ HasResolved(interfaces[1], interfaces[1].ReadyToBeSentQueue[1].payload.dgram.dst)

\* C16, the empty queue: maybe_send has returned nothing.
C16_WitnessEmpty ==
  /\ last.op = "maybe_send" /\ ~last.returned
  /\ interfaces[1].ReadyToBeSentQueue = << >>
  /\ interfaces[1].ARPTable # << >>

(***************************************************************************)
(* tick, checked under Spec *)

\* ms < t for a size_t ms given by its limbs and a TTL t below 65536
MsBelow(ms, t) == ms[1] = 0 /\ ms[2] = 0 /\ ms[3] = 0 /\ ms[4] < t

\* C17: tick(ms), for every size_t ms, keeps exactly the entries whose TTL
\* t is above ms, in their order, each with TTL t - ms.
C17_TickSubtracts ==
  [][\A ms \in TickValues :
       (last'.op = "tick" /\ TickStep(1, ms))
       => LET keep == SelectSeq(interfaces[1].ARPTable, LAMBDA e : MsBelow(ms, e.ttl))
          IN interfaces'[1].ARPTable
               = [k \in 1..Len(keep) |-> [keep[k] EXCEPT !.ttl = @ - ms[4]]]]_vars

\* C18: every Pending entry has TTL at most 5000 and every Resolved entry
\* TTL at most 30000, in every reachable state.
C18_TtlBounded ==
  \A k \in 1..Len(interfaces[1].ARPTable) :
    interfaces[1].ARPTable[k].ttl
      <= IF interfaces[1].ARPTable[k].complete_entry THEN 30000 ELSE 5000

\* C19, checked under HistorySpec: the interface retries on its own, so
\* when tick has dropped the queue of an address, more ARP requests for the
\* address were enqueued than send_datagram inserted entries for it.
C19_RetriedBeforeDrop ==
  \A ip \in PeerIps :
    <<1, ip>> \in expired => Count(arpRequests, <<1, ip>>) > Count(insertions, <<1, ip>>)

\* C20, checked under DropSpec: no reachable state is one after exit(1):
\* the interface is running.
C20_NoFatalExit == status = "running"

\* C20, its case, under DropSpec: tick has erased a Pending entry with its
\* queue and the first datagram, a later datagram has been framed for a
\* resolved address, an ARP frame has arrived since, and the interface runs.
C20_Witness ==
  /\ last.op = "recv_frame" /\ last.accepted /\ last.type = TYPE_ARP
  /\ status = "running"
  /\ dropped = {1}
  /\ interfaces[1].IPQueues = << >>
  /\ \E e \in EntriesFor(interfaces[1], IpB) : e.complete_entry
  /\ TxIds(interfaces[1]) = {2}

(***************************************************************************)
(* More of the interface, checked under Spec and DropSpec *)

\* C21: a recv_frame that accepts an ARP REQUEST for the own IP from a
\* sender whose IP has a Pending entry appends to TX the IPv4 frames of the
\* queued datagrams, in queue order, and after them the ARP REPLY, nothing
\* else; the TX queue being first in, first out, maybe_send returns them
\* in that order.
C21_DrainBeforeReply ==
  [][\A frame \in InFrames :
       (/\ last'.op = "recv_frame" /\ last'.type = TYPE_ARP
        /\ isAcceptedArp(interfaces[1], frame)
        /\ frame.payload.arp.opcode = OPCODE_REQUEST
        /\ frame.payload.arp.target_ip_address = interfaces[1].ip_address_
        /\ HasPending(interfaces[1], frame.payload.arp.sender_ip_address)
        /\ RecvFrameStep(1, frame))
       => LET nif == interfaces[1]
              arp == frame.payload.arp
              q == QueueOf(nif, arp.sender_ip_address)
          IN /\ Len(q) >= 1
             /\ Pushed(nif, interfaces'[1])
                  = [k \in 1..Len(q) |-> Ipv4Frame(nif, arp.sender_ethernet_address, q[k])]
                    \o <<ArpReplyFrame(nif, arp)>>]_vars

\* C21, its case: one recv_frame has put the frame of a queued datagram and
\* then the ARP REPLY on an empty TX queue.
C21_Witness ==
  /\ last.op = "recv_frame"
  /\ Len(interfaces[1].ReadyToBeSentQueue) = 2
  /\ interfaces[1].ReadyToBeSentQueue[1].type = TYPE_IPv4
  /\ interfaces[1].ReadyToBeSentQueue[1].dst = interfaces[1].ReadyToBeSentQueue[2].dst
  /\ interfaces[1].ReadyToBeSentQueue[2].type = TYPE_ARP
  /\ interfaces[1].ReadyToBeSentQueue[2].payload.arp.opcode = OPCODE_REPLY
  /\ interfaces[1].ReadyToBeSentQueue[2].payload.arp.target_ip_address
       = interfaces[1].ReadyToBeSentQueue[1].payload.dgram.dst

\* C22, checked under DropSpec: in every reachable state the ARP table has
\* at most one entry, and IPQueues at most one queue, for any IP address.
C22_OneEntryPerIp ==
  LET nif == interfaces[1]
  IN /\ \A j, k \in 1..Len(nif.ARPTable) :
          nif.ARPTable[j].ip_address = nif.ARPTable[k].ip_address => j = k
     /\ \A j, k \in 1..Len(nif.IPQueues) :
          nif.IPQueues[j].ip_address = nif.IPQueues[k].ip_address => j = k

\* C22, its case: the entry of one address expired and was created again
\* by the second request, and an ARP frame has arrived from the other
\* address, already resolved.
C22_Witness ==
  /\ last.op = "recv_frame" /\ last.accepted /\ last.type = TYPE_ARP
  /\ dropped = {1}
  /\ QueuedIds(interfaces[1]) = {2}
  /\ interfaces[1].ReadyToBeSentQueue
       = <<ArpRequestFrame(interfaces[1], IpA), ArpRequestFrame(interfaces[1], IpA)>>
  /\ HasPending(interfaces[1], IpA)
  /\ \E e \in EntriesFor(interfaces[1], IpB) : e.complete_entry /\ e.ttl = 30000
  /\ Len(interfaces[1].ARPTable) = 2

\* C23: in every reachable state tick(0) leaves the interface as it is, no
\* entry removed, no TTL and no queue changed, and does not exit; a second
\* tick(0) therefore starts from the state the first started from.
C23_TickZeroNoOp ==
  [][(last'.op = "tick" /\ TickStep(1, <<0, 0, 0, 0>>))
       => /\ interfaces' = interfaces
          /\ status' = status]_vars

\* C23, its case: after a tick the cache holds a Pending entry and a
\* Resolved entry with the TTLs they were given, and a datagram is queued.
C23_Witness ==
  /\ last.op = "tick"
  /\ \E e \in EntriesFor(interfaces[1], IpA) : ~e.complete_entry /\ e.ttl = 5000
  /\ \E e \in EntriesFor(interfaces[1], IpB) : e.complete_entry /\ e.ttl = 30000
  /\ Len(QueueOf(interfaces[1], IpA)) = 1
  /\ interfaces[1].ReadyToBeSentQueue # << >>

(***************************************************************************)
(* More of the router, checked under RouterSpec *)

\* <<ingress, datagram>> of the datagrams waiting in the interfaces from
\* interface i on, by interface index and, within one interface, in the
\* order recv_frame stored them.
RECURSIVE InboundInOrder(_, _)
InboundInOrder(ifs, i) ==
  IF i > Len(ifs) THEN << >>
  ELSE [k \in 1..Len(ifs[i].datagrams_in_) |-> <<i - 1, ifs[i].datagrams_in_[k]>>]
       \o InboundInOrder(ifs, i + 1)

\* route() returned, left no received datagram waiting, and took the
\* datagrams by interface index and in stored order, making its
\* send_datagram calls in that order.
RouteDrainedInOrder ==
  /\ status' = "running"
  /\ \A i \in 1..Len(interfaces') : interfaces'[i].datagrams_in_ = << >>
  /\ [k \in 1..Len(routeLog') |-> <<routeLog'[k].ingress, routeLog'[k].received>>]
       = InboundInOrder(interfaces, 1)
  /\ LET want == OneSendEach([i \in 1..Len(interfaces) |-> Outbound(interfaces[i])],
                             routeLog', 1)
     IN \A i \in 1..Len(interfaces) : Outbound(interfaces'[i]) = want[i]

\* C24: every route() returns with the inbound queue of every interface
\* empty, having taken the datagrams by interface index and in the order
\* recv_frame stored them and made its send_datagram calls in that order.
C24_DrainsInOrder == [][last'.op = "route" => RouteDrainedInOrder]_vars

\* The same of every route() over a table whose entries name interfaces
\* the router has.
C24_DrainsInOrderInRange ==
  [][(/\ last'.op = "route"
      /\ \A j \in 1..Len(RoutingTable) : RoutingTable[j].interface_num < Len(interfaces))
     => RouteDrainedInOrder]_vars

\* C25: every send_datagram call of route() is on an interface the router
\* has: the interface_num of every forwarded datagram is below the number
\* of interfaces, and route() has not run into undefined behaviour.
C25_SendsOnExistingInterface ==
  /\ status # "undefined"
  /\ \A rec \in Forwarded(routeLog) : rec.interface_num < Len(interfaces)

\* The entries of the table that agree with the address on their top bits
Matching(table, dst) ==
  {j \in 1..Len(table) : TopBitsAgree(dst, table[j].route_prefix, table[j].prefix_length)}

\* C26: the entry route() uses for a forwarded datagram is the first added
\* among the matching entries of the greatest prefix_length; it is the same
\* function of the table and the destination for every ingress interface
\* and every position in the run of datagrams.
C26_FirstAddedWinsTie ==
  \A rec \in Forwarded(routeLog) :
    \E j \in Matching(RoutingTable, rec.received.dst) :
      /\ rec.table_entry = RoutingTable[j]
      /\ rec.interface_num = RoutingTable[j].interface_num
      /\ \A k \in Matching(RoutingTable, rec.received.dst) :
            \/ RoutingTable[k].prefix_length < RoutingTable[j].prefix_length
            \/ RoutingTable[k].prefix_length = RoutingTable[j].prefix_length /\ k >= j

\* C26, its case: two different entries of the same prefix_length match a
\* forwarded datagram, which went out by the first.
C26_Witness ==
  /\ last.op = "route" /\ status = "running" /\ Len(RoutingTable) = 2
  /\ RoutingTable[1].prefix_length = RoutingTable[2].prefix_length
  /\ RoutingTable[1].interface_num # RoutingTable[2].interface_num
  /\ \E rec \in Forwarded(routeLog) :
        /\ Matching(RoutingTable, rec.received.dst) = {1, 2}
        /\ rec.table_entry = RoutingTable[1]
        /\ RoutingTable[1].interface_num + 1 <= Len(interfaces)
        /\ \E d \in HeldDgrams(interfaces[RoutingTable[1].interface_num + 1]) :
              d.id = rec.received.id

(***************************************************************************)
(* Every datagram is framed once, checked under Spec *)

\* C27: a step puts a datagram on TX in an IPv4 frame only when the
\* datagram is the one send_datagram was just given or was in an IP queue
\* before the step; it does so once, the datagram is in no IP queue after
\* the step, and the frame goes to the MAC the cache holds for the next
\* hop after the step. Only the datagram just given enters an IP queue. So
\* over a trace no datagram is framed twice.
C27_FramedOnce ==
  [][LET nif == interfaces[1]
         new == interfaces'[1]
         ip4 == SelectSeq(Pushed(nif, new), LAMBDA f : f.type = TYPE_IPv4)
         fresh == IF last'.op = "send_datagram" THEN {nextId + 1} ELSE {}
     IN (last'.op # "maybe_send") =>
        /\ \A j, k \in 1..Len(ip4) : ip4[j].payload.dgram.id = ip4[k].payload.dgram.id => j = k
        /\ \A k \in 1..Len(ip4) :
              /\ ip4[k].payload.dgram.id \notin TxIds(nif)
              /\ ip4[k].payload.dgram.id \notin QueuedIds(new)
              /\ ip4[k].payload.dgram.id \in QueuedIds(nif) \cup fresh
              /\ \E e \in EntriesFor(new, ip4[k].payload.dgram.dst) :
                    e.complete_entry /\ e.mac_address = ip4[k].dst
        /\ QueuedIds(new) \subseteq QueuedIds(nif) \cup fresh
        /\ \A id \in TxIds(nif) \cup QueuedIds(nif) : id <= nextId
        /\ TxIds(nif) \cap QueuedIds(nif) = {}]_vars

\* C27, its case: a datagram framed when its address was resolved and one
\* framed at once by the following send_datagram wait on TX, one frame
\* each, addressed to the MAC in the cache.
C27_Witness ==
  /\ last.op = "send_datagram"
  /\ Len(interfaces[1].ReadyToBeSentQueue) = 2
  /\ \A k \in 1..2 :
        /\ interfaces[1].ReadyToBeSentQueue[k].type = TYPE_IPv4
        /\ interfaces[1].ReadyToBeSentQueue[k].payload.dgram.id = k
        /\ interfaces[1].ReadyToBeSentQueue[k].payload.dgram.dst = last.next_hop
        /\ \E e \in EntriesFor(interfaces[1], last.next_hop) :
              e.mac_address = interfaces[1].ReadyToBeSentQueue[k].dst
  /\ interfaces[1].IPQueues = << >>

(***************************************************************************)
(* Delivery, checked under LiveSpec *)

\* Datagram id waits on TX in an IPv4 frame addressed to mac.
FramedFor(id, mac) ==
  \E k \in 1..Len(interfaces[1].ReadyToBeSentQueue) :
    /\ interfaces[1].ReadyToBeSentQueue[k].type = TYPE_IPv4
    /\ interfaces[1].ReadyToBeSentQueue[k].payload.dgram.id = id
    /\ interfaces[1].ReadyToBeSentQueue[k].dst = mac

\* maybe_send has just returned datagram id in an IPv4 frame addressed to mac.
ReturnedFor(id, mac) ==
  /\ last.op = "maybe_send" /\ last.ret.has_value
  /\ last.ret.value.type = TYPE_IPv4
  /\ last.ret.value.payload.dgram.id = id
  /\ last.ret.value.dst = mac
  /\ last.ret.value.src = interfaces[1].ethernet_address_

\* C28: with the host calling maybe_send again and again, a datagram that
\* is on TX in an IPv4 frame addressed to a MAC, where the accepted ARP
\* frame of the Pending address puts every queued datagram addressed to the
\* sender's MAC, is eventually returned by maybe_send in that frame,
\* whatever tick and the other calls do meanwhile.
C28_QueuedIsDelivered ==
  \A id \in 1..MaxDgrams : \A mac \in PeerMacs :
    FramedFor(id, mac) ~> ReturnedFor(id, mac)

\* C28, its case: maybe_send has returned the first datagram, framed at
\* resolution to the sender's MAC, after ticks that have emptied the cache.
C28_Witness ==
  /\ ReturnedFor(1, MacA)
  /\ last.ret.value.payload.dgram.dst = IpA
  /\ interfaces[1].ARPTable = << >>
  /\ nextId = 1

====
